---- MODULE Spec2Model ----
(***************************************************************************)
(* A model of dashboard.py: the table-to-cases transform                   *)
(* (load_and_process_data), the badge classifier (get_badge_html), the     *)
(* per-system summary (render_summary_section) and the script run (main)   *)
(* on top of Streamlit's st.cache_data memoisation.                        *)
(*                                                                         *)
(* Numbers.  A Python float is modelled as an integer count of tenths      *)
(* (85.5 is 855), or as NaN.  A DataFrame cell is a record                 *)
(*   [t |-> "num" | "str" | "nan", v |-> tenths, s |-> characters]         *)
(* so that a missing cell (NaN), a number and a text keep apart the way    *)
(* they do in pandas.  A text is a sequence of one-character strings (or   *)
(* of opaque tokens for free text), so that str(), upper(), float() and    *)
(* int() are computed, not assumed.                                        *)
(***************************************************************************)
EXTENDS Integers, Sequences, FiniteSets, TLC

VARIABLES
    pc,          \* position of the run being modelled
    df,          \* the input of load_and_process_data: a file and its table
    loaded,      \* the outcome of load_and_process_data(df)
    score,       \* get_badge_html: argument score
    is_fatal,    \* get_badge_html: argument is_fatal
    badge,       \* get_badge_html: outcome
    cases,       \* render_summary_section: argument cases
    summary,     \* render_summary_section: what it rendered
    disk,        \* main: the Evaluation_Report*.xlsx files of the directory
    newest,      \* main: the path with the greatest modification time
    uploaded_file, \* main: the file_uploader widget's value
    cache,       \* st.cache_data: memoised outcomes of load_and_process_data
    screen       \* main: what the last script run put on the page

vars == <<pc, df, loaded, score, is_fatal, badge, cases, summary,
          disk, newest, uploaded_file, cache, screen>>

-----------------------------------------------------------------------------
(* Cells and the Python conversions applied to them *)

NaN == [t |-> "nan", v |-> 0, s |-> <<>>]
Num(n) == [t |-> "num", v |-> n, s |-> <<>>]
Str(chars) == [t |-> "str", v |-> 0, s |-> chars]

\* One tenth is the unit of a float: 1.0 is Scale tenths.
Scale == 10

Abs(n) == IF n < 0 THEN -n ELSE n

\* int(x) of a float: truncation toward zero.
Trunc(n) == IF n < 0 THEN -((-n) \div Scale) ELSE n \div Scale

DigitChars == <<"0", "1", "2", "3", "4", "5", "6", "7", "8", "9">>

IsDigit(c) == \E i \in 1..10 : DigitChars[i] = c

DigitVal(c) == (CHOOSE i \in 1..10 : DigitChars[i] = c) - 1

RECURSIVE NatChars(_)
\* The decimal digits of a natural number.
NatChars(n) ==
    IF n < 10 THEN <<DigitChars[n + 1]>>
    ELSE NatChars(n \div 10) \o <<DigitChars[(n % 10) + 1]>>

RECURSIVE DigitsVal(_)
\* The natural number a non-empty digit string denotes.
DigitsVal(chars) ==
    IF Len(chars) = 0 THEN 0
    ELSE 10 * DigitsVal(SubSeq(chars, 1, Len(chars) - 1)) + DigitVal(chars[Len(chars)])

AllDigits(chars) == Len(chars) > 0 /\ \A i \in 1..Len(chars) : IsDigit(chars[i])

\* str(x) of a cell: a text is itself, a missing cell is "nan", a float is
\* its repr with one decimal ("85.0").
StrOf(cell) ==
    CASE cell.t = "str" -> cell.s
      [] cell.t = "nan" -> <<"n", "a", "n">>
      [] OTHER -> (IF cell.v < 0 THEN <<"-">> ELSE <<>>)
                  \o NatChars(Abs(cell.v) \div Scale) \o <<".">>
                  \o NatChars(Abs(cell.v) % Scale)

UpperChar(c) ==
    CASE c = "y" -> "Y" [] c = "e" -> "E" [] c = "s" -> "S"
      [] c = "n" -> "N" [] c = "o" -> "O" [] c = "a" -> "A"
      [] OTHER -> c

\* str.upper()
Upper(chars) == [i \in 1..Len(chars) |-> UpperChar(chars[i])]

\* The position of the decimal point of a text, 0 when it has none.
DotAt(chars) ==
    IF \E i \in 1..Len(chars) : chars[i] = "."
    THEN CHOOSE i \in 1..Len(chars) :
             chars[i] = "." /\ \A j \in 1..(i - 1) : chars[j] # "."
    ELSE 0

\* float(s) of a text: [ok, nan, v].  Digits, optionally a point and one
\* more digit, or "nan" in any letter case; any other text raises ValueError.
ParseFloat(c) ==
    LET d == DotAt(c)
    IN  IF Upper(c) = <<"N", "A", "N">>
        THEN [ok |-> TRUE, nan |-> TRUE, v |-> 0]
        ELSE IF AllDigits(c)
        THEN [ok |-> TRUE, nan |-> FALSE, v |-> Scale * DigitsVal(c)]
        ELSE IF d > 1 /\ d = Len(c) - 1 /\ AllDigits(SubSeq(c, 1, d - 1))
                /\ IsDigit(c[Len(c)])
        THEN [ok |-> TRUE, nan |-> FALSE,
              v |-> Scale * DigitsVal(SubSeq(c, 1, d - 1)) + DigitVal(c[Len(c)])]
        ELSE [ok |-> FALSE, nan |-> FALSE, v |-> 0]

\* Mutant of FloatOf: a text that is no number becomes nan instead of
\* raising (pd.to_numeric(errors='coerce')).
FloatOf_coerce(cell) ==
    CASE cell.t = "num" -> [ok |-> TRUE, nan |-> FALSE, v |-> cell.v]
      [] cell.t = "nan" -> [ok |-> TRUE, nan |-> TRUE, v |-> 0]
      [] OTHER -> IF ParseFloat(cell.s).ok THEN ParseFloat(cell.s)
                  ELSE [ok |-> TRUE, nan |-> TRUE, v |-> 0]

\* float(x) of a cell: a number is itself, a missing cell is nan, a text
\* is parsed.
FloatOf(cell) ==
    CASE cell.t = "num" -> [ok |-> TRUE, nan |-> FALSE, v |-> cell.v]
      [] cell.t = "nan" -> [ok |-> TRUE, nan |-> TRUE, v |-> 0]
      [] OTHER -> ParseFloat(cell.s)

\* int(x) of a group key: [ok, v].  A float is truncated, a text must be
\* all digits, anything else raises ValueError.
IntOf(cell) ==
    CASE cell.t = "num" -> [ok |-> TRUE, v |-> Trunc(cell.v)]
      [] cell.t = "str" /\ AllDigits(cell.s) -> [ok |-> TRUE, v |-> DigitsVal(cell.s)]
      [] OTHER -> [ok |-> FALSE, v |-> 0]

-----------------------------------------------------------------------------
(* The table: pandas' DataFrame as read from the file *)

RequiredText == {"QUESTION", "CITATION_RULE", "GROUND_TRUTH", "MODEL_OUTPUT",
                 "AUDIT_REASONING"}

AllColumns == {"CASE_ID", "SYSTEM", "TOTAL_SCORE", "S4_FATAL", "S4_REASON",
               "SOURCE_FILE"} \cup RequiredText

\* df.fillna({...}): the default text of each column that has one.
FillDefault(col) ==
    CASE col = "CITATION_RULE" -> Str(<<"no specific rule">>)
      [] col = "QUESTION" -> Str(<<"question not found">>)
      [] col = "GROUND_TRUTH" -> Str(<<"no reference content">>)
      [] col = "S4_REASON" -> Str(<<>>)
      [] col = "AUDIT_REASONING" -> Str(<<"no audit analysis yet">>)
      [] col = "MODEL_OUTPUT" -> Str(<<"[model output missing]">>)
      [] col = "SOURCE_FILE" -> Str(<<"unknown data source">>)
      [] OTHER -> NaN

FilledColumns == {"CITATION_RULE", "QUESTION", "GROUND_TRUTH", "S4_REASON",
                  "AUDIT_REASONING", "MODEL_OUTPUT", "SOURCE_FILE"}

fillna(rows) ==
    [i \in 1..Len(rows) |->
        [col \in DOMAIN rows[i] |->
            IF col \in FilledColumns /\ rows[i][col] = NaN
            THEN FillDefault(col) ELSE rows[i][col]]]

RECURSIVE UniquePrefix(_, _)
\* The distinct values of cells[1..n] in the order of their first
\* occurrence (Series.unique; every missing cell is the one value NaN).
UniquePrefix(cells, n) ==
    IF n = 0 THEN <<>>
    ELSE LET before == UniquePrefix(cells, n - 1)
         IN  IF \E j \in 1..Len(before) : before[j] = cells[n]
             THEN before ELSE Append(before, cells[n])

unique(cells) == UniquePrefix(cells, Len(cells))

Column(rows, col) == [i \in 1..Len(rows) |-> rows[i][col]]

\* Character order of the texts used as group keys.
CharRank(c) == IF IsDigit(c) THEN DigitVal(c) ELSE 10

RECURSIVE TextLess(_, _)
\* Lexicographic order of two texts.
TextLess(a, b) ==
    IF Len(b) = 0 THEN FALSE
    ELSE IF Len(a) = 0 THEN TRUE
    ELSE IF CharRank(a[1]) # CharRank(b[1]) THEN CharRank(a[1]) < CharRank(b[1])
    ELSE TextLess(Tail(a), Tail(b))

\* The order groupby(sort=True) gives its keys: numbers ascending, then
\* texts in lexicographic order.
KeyLess(a, b) ==
    CASE a.t = "num" /\ b.t = "num" -> a.v < b.v
      [] a.t = "num" /\ b.t = "str" -> TRUE
      [] a.t = "str" /\ b.t = "str" -> TextLess(a.s, b.s)
      [] OTHER -> FALSE

RECURSIVE InsertKey(_, _)
InsertKey(keys, k) ==
    IF Len(keys) = 0 THEN <<k>>
    ELSE IF KeyLess(k, keys[1]) THEN <<k>> \o keys
    ELSE <<keys[1]>> \o InsertKey(Tail(keys), k)

RECURSIVE SortKeys(_)
SortKeys(keys) ==
    IF Len(keys) = 0 THEN <<>>
    ELSE InsertKey(SortKeys(SubSeq(keys, 1, Len(keys) - 1)), keys[Len(keys)])

IsKey(cell) == cell.t # "nan"

\* df.groupby('CASE_ID'): the group keys in iteration order; rows whose
\* CASE_ID is missing belong to no group (dropna).
GroupKeys(rows) == SortKeys(SelectSeq(unique(Column(rows, "CASE_ID")), IsKey))

\* The rows of one group, in table order.
Group(rows, key) == LET InGroup(r) == r.CASE_ID = key IN SelectSeq(rows, InGroup)

\* group[group['SYSTEM'] == system]: NaN equals nothing, itself included.
SysRows(group, system) ==
    LET Match(r) == system.t # "nan" /\ r.SYSTEM = system
    IN  SelectSeq(group, Match)

-----------------------------------------------------------------------------
(* load_and_process_data *)

Ok(val) == [ok |-> TRUE, exc |-> "", val |-> val]
Raise(exc) == [ok |-> FALSE, exc |-> exc, val |-> <<>>]

MissingRaw == <<"[system data missing]">>
MissingAudit == <<"N", "/", "A">>

\* Mutant of Placeholder: the missing slot carries no score.
Placeholder_noscore(system) ==
    [system_name |-> system, score |-> [nan |-> TRUE, v |-> 0],
     is_fatal |-> FALSE, raw_response |-> MissingRaw,
     audit_reasoning |-> MissingAudit, fatal_reason |-> <<>>]

Placeholder(system) ==
    [system_name |-> system, score |-> [nan |-> FALSE, v |-> 0],
     is_fatal |-> FALSE, raw_response |-> MissingRaw,
     audit_reasoning |-> MissingAudit, fatal_reason |-> <<>>]

IsFatalCell(cell) == Upper(StrOf(cell)) = <<"Y", "E", "S">>

\* Mutant of PickRow: the last matching row wins.
PickRow_last(sys_row) == sys_row[Len(sys_row)]

\* Which row of the matching rows a result is built from: sys_row.iloc[0].
PickRow(sys_row) == sys_row[1]

\* One slot of a case: the SystemResult of `system` in `group`, or the
\* exception its construction raises.
BuildResult(cols, group, system) ==
    LET sys_row == SysRows(group, system)
    IN  IF Len(sys_row) = 0 THEN Ok(Placeholder(system))
        ELSE LET row == PickRow(sys_row)
                 f == FloatOf(row.TOTAL_SCORE)
             IN  IF "TOTAL_SCORE" \notin cols THEN Raise("KeyError")
                 ELSE IF ~f.ok THEN Raise("ValueError")
                 ELSE IF {"S4_FATAL", "MODEL_OUTPUT", "AUDIT_REASONING"} \ cols # {}
                 THEN Raise("KeyError")
                 ELSE Ok([system_name |-> system,
                          score |-> [nan |-> f.nan, v |-> f.v],
                          is_fatal |-> IsFatalCell(row.S4_FATAL),
                          raw_response |-> StrOf(row.MODEL_OUTPUT),
                          audit_reasoning |-> StrOf(row.AUDIT_REASONING),
                          fatal_reason |-> IF "S4_REASON" \in cols
                                           THEN StrOf(row.S4_REASON) ELSE <<>>])

RECURSIVE BuildResults(_, _, _, _)
\* The results of one case, slot by slot up to slot n; the first exception
\* ends the loop.
BuildResults(cols, group, systems, n) ==
    IF n = 0 THEN Ok(<<>>)
    ELSE LET before == BuildResults(cols, group, systems, n - 1)
             r == BuildResult(cols, group, systems[n])
         IN  IF ~before.ok THEN before
             ELSE IF ~r.ok THEN r
             ELSE Ok(Append(before.val, r.val))

\* The EvaluationCase of one group, or the exception its construction
\* raises.
CaseOf(cols, group, systems, key) ==
    LET first_row == group[1]
        results == BuildResults(cols, group, systems, Len(systems))
        id == IntOf(key)
    IN  IF ~results.ok THEN results
        ELSE IF ~id.ok THEN Raise("ValueError")
        ELSE IF {"QUESTION", "CITATION_RULE", "GROUND_TRUTH"} \ cols # {}
        THEN Raise("KeyError")
        ELSE Ok([case_id |-> id.v,
                 question_text |-> StrOf(first_row.QUESTION),
                 citation_rule |-> StrOf(first_row.CITATION_RULE),
                 ground_truth |-> StrOf(first_row.GROUND_TRUTH),
                 source_file |-> IF "SOURCE_FILE" \in cols
                                 THEN StrOf(first_row.SOURCE_FILE)
                                 ELSE <<"unknown">>,
                 results |-> results.val])

\* Mutant of BuildCase: the systems are those of the case's own group.
BuildCase_ownSystems(cols, rows, systems, key) ==
    CaseOf(cols, Group(rows, key), unique(Column(Group(rows, key), "SYSTEM")), key)

\* The body of the loop over the groups: the slots are those of
\* unique_systems, the systems of the whole table.
BuildCase(cols, rows, systems, key) == CaseOf(cols, Group(rows, key), systems, key)

RECURSIVE BuildCases(_, _, _, _, _)
BuildCases(cols, rows, systems, keys, n) ==
    IF n = 0 THEN Ok(<<>>)
    ELSE LET before == BuildCases(cols, rows, systems, keys, n - 1)
             c == BuildCase(cols, rows, systems, keys[n])
         IN  IF ~before.ok THEN before
             ELSE IF ~c.ok THEN c
             ELSE Ok(Append(before.val, c.val))

RECURSIVE InsertCase(_, _)
\* Stable insertion by case_id: after every case whose id is not greater.
InsertCase(sorted, c) ==
    IF Len(sorted) = 0 THEN <<c>>
    ELSE IF c.case_id < sorted[1].case_id THEN <<c>> \o sorted
    ELSE <<sorted[1]>> \o InsertCase(Tail(sorted), c)

\* Mutant of SortCases: the cases stay in group order.
SortCases_none(cs) == cs

RECURSIVE SortCases(_)
\* sorted(cases, key=lambda x: x.case_id)
SortCases(cs) ==
    IF Len(cs) = 0 THEN <<>>
    ELSE InsertCase(SortCases(SubSeq(cs, 1, Len(cs) - 1)), cs[Len(cs)])

\* The parser the file's name selects, and whether it reads the file.
EndsWithCsv(name) == Len(name) > 0 /\ name[Len(name)] = ".csv"

ReadFails(file) ==
    file.format # (IF EndsWithCsv(file.name) THEN "csv" ELSE "xlsx")

\* The exception the parser raises on a file it cannot read, as a text.
ReadException(file) == <<"cannot parse", file.format, "as">> \o file.name

\* st.error(f"<read error>: {e}")
ReadErrorMessage(file) == <<"error reading file:">> \o ReadException(file)

Returned(val, errors) == [kind |-> "return", exc |-> "", value |-> val, errors |-> errors]
Raised(exc) == [kind |-> "raise", exc |-> exc, value |-> <<>>, errors |-> <<>>]

\* The transform after a successful read.
Process(cols, rows0) ==
    LET rows == fillna(rows0)
    IN  IF "SYSTEM" \notin cols THEN Raised("KeyError")
        ELSE IF "CASE_ID" \notin cols THEN Raised("KeyError")
        ELSE LET unique_systems == unique(Column(rows, "SYSTEM"))
                 keys == GroupKeys(rows)
                 built == BuildCases(cols, rows, unique_systems, keys, Len(keys))
             IN  IF ~built.ok THEN Raised(built.exc)
                 ELSE Returned(SortCases(built.val), <<>>)

\* Mutant of load_and_process_data: the read is not guarded, so the
\* parser's exception leaves the function.
load_and_process_data_noCatch(file) ==
    IF ReadFails(file)
    THEN Raised("ReadError")
    ELSE Process(file.cols, file.rows)

\* load_and_process_data(file_path_or_buffer): what it returns or raises,
\* and the st.error messages it emits.
load_and_process_data(file) ==
    IF ReadFails(file)
    THEN Returned(<<>>, <<ReadErrorMessage(file)>>)
    ELSE Process(file.cols, file.rows)

-----------------------------------------------------------------------------
(* Inputs: the tables the load is checked on *)

\* The greatest number of rows of a table.
MaxRows == 3

Txt(tok) == Str(<<tok>>)

\* The columns of a row other than CASE_ID and SYSTEM.
Payload(sc, fatal, mark) ==
    [TOTAL_SCORE |-> sc, S4_FATAL |-> fatal,
     S4_REASON |-> IF mark = "" THEN NaN ELSE Txt("reason " \o mark),
     MODEL_OUTPUT |-> IF mark = "" THEN NaN ELSE Txt("output " \o mark),
     AUDIT_REASONING |-> IF mark = "" THEN NaN ELSE Txt("audit " \o mark),
     QUESTION |-> IF mark = "" THEN NaN ELSE Txt("question " \o mark),
     CITATION_RULE |-> IF mark = "" THEN NaN ELSE Txt("rule " \o mark),
     GROUND_TRUTH |-> IF mark = "" THEN NaN ELSE Txt("truth " \o mark),
     SOURCE_FILE |-> IF mark = "" THEN NaN ELSE Txt("source " \o mark)]

MkRow(id, sys, p) == [CASE_ID |-> id, SYSTEM |-> sys] @@ p

SysA == Str(<<"A">>)
SysB == Str(<<"B">>)

\* 85.5, not fatal, every text present.
PlainPayload == Payload(Num(855), Str(<<"N", "O">>), "p")
\* "100" as a text, fatal in lower case, every text missing.
FatalPayload == Payload(Str(<<"1", "0", "0">>), Str(<<"y", "e", "s">>), "")
\* A score that is no number.
BadPayload == Payload(Str(<<"a", "b", "c">>), Str(<<"Y", "E", "S">>), "b")

CaseIdCells == {Num(10), Num(15), Str(<<"9">>), Str(<<"1", "0">>), NaN}
SystemCells == {SysA, SysB, NaN}

LoadRows ==
    {MkRow(id, sys, PlainPayload) : id \in CaseIdCells, sys \in SystemCells}
    \cup {MkRow(id, SysA, p) : id \in {Num(10), Num(15)},
                               p \in {FatalPayload, BadPayload}}

SeqsUpTo(S, n) == UNION {[1..k -> S] : k \in 0..n}

CsvName == <<"report", ".csv">>
XlsxName == <<"Evaluation_Report", ".xlsx">>

File(name, format, cols, rows) ==
    [name |-> name, format |-> format, cols |-> cols, rows |-> rows]

NoFile == File(<<>>, "none", {}, <<>>)
NoOutcome == [kind |-> "none", exc |-> "", value |-> <<>>, errors |-> <<>>]
NoBadge == [kind |-> "none", class |-> "", label |-> "", n |-> 0]

\* The variables a specification does not use stay at these values.
IdleLoad == df = NoFile /\ loaded = NoOutcome
IdleBadge == score = [nan |-> FALSE, v |-> 0] /\ is_fatal = FALSE /\ badge = NoBadge
IdleSummary == cases = <<>> /\ summary = <<>>
IdleApp == disk = <<>> /\ newest = <<>> /\ uploaded_file = NoFile
           /\ cache = {} /\ screen = <<>>

-----------------------------------------------------------------------------
(* Specification Spec: one call of load_and_process_data on a table *)

Init ==
    /\ pc = "start"
    /\ \E rows \in SeqsUpTo(LoadRows, MaxRows) :
           df = File(CsvName, "csv", AllColumns, rows)
    /\ loaded = NoOutcome
    /\ IdleBadge /\ IdleSummary /\ IdleApp

Load ==
    /\ pc = "start"
    /\ loaded' = load_and_process_data(df)
    /\ pc' = "loaded"
    /\ UNCHANGED <<df, score, is_fatal, badge, cases, summary,
                   disk, newest, uploaded_file, cache, screen>>

Next == Load

Spec == Init /\ [][Next]_vars

-----------------------------------------------------------------------------
(* get_badge_html *)

\* The thresholds of the bands, in points.
PerfectMin == 100
ExcellentMin == 90
FailBelow == 60

\* score >= points and score < points on floats: false when score is nan.
AtLeast(sc, points) == ~sc.nan /\ sc.v >= points * Scale
Below(sc, points) == ~sc.nan /\ sc.v < points * Scale

\* int(score) inside the label: [ok, v]; int(nan) raises ValueError.
IntOfScore(sc) == IF sc.nan THEN [ok |-> FALSE, v |-> 0] ELSE [ok |-> TRUE, v |-> Trunc(sc.v)]

Badge(class, label, n) == [kind |-> "badge", class |-> class, label |-> label, n |-> n]
BadgeRaises == [kind |-> "raise", class |-> "", label |-> "ValueError", n |-> 0]

\* A badge whose label shows int(score).
Scored(class, label, sc) ==
    IF IntOfScore(sc).ok THEN Badge(class, label, IntOfScore(sc).v) ELSE BadgeRaises

\* get_badge_html(score, is_fatal): the badge, or the exception raised
\* while its label is formatted.
get_badge_html(sc, fatal) ==
    IF fatal THEN Badge("badge-fail", "FATAL", 0)
    ELSE IF AtLeast(sc, PerfectMin) THEN Scored("badge-perfect", "PERFECT", sc)
    ELSE IF AtLeast(sc, ExcellentMin) THEN Scored("badge-excellent", "EXCELLENT", sc)
    ELSE IF Below(sc, FailBelow) THEN Scored("badge-fail", "FAIL", sc)
    ELSE Scored("badge-neutral", "QUALIFIED", sc)

-----------------------------------------------------------------------------
(* Specification SpecBadge: one call of get_badge_html *)

\* The scores tried run from -MaxBelowZero to MaxPoints points, in tenths.
MaxPoints == 101
MaxBelowZero == 1

NanScore == [nan |-> TRUE, v |-> 0]

Scores ==
    {NanScore} \cup {[nan |-> FALSE, v |-> n] :
                        n \in (-(MaxBelowZero * Scale))..(MaxPoints * Scale)}

InitBadge ==
    /\ pc = "start"
    /\ score \in Scores
    /\ is_fatal \in BOOLEAN
    /\ badge = NoBadge
    /\ IdleLoad /\ IdleSummary /\ IdleApp

GetBadge ==
    /\ pc = "start"
    /\ badge' = get_badge_html(score, is_fatal)
    /\ pc' = "badged"
    /\ UNCHANGED <<df, loaded, score, is_fatal, cases, summary,
                   disk, newest, uploaded_file, cache, screen>>

NextBadge == GetBadge

SpecBadge == InitBadge /\ [][NextBadge]_vars

-----------------------------------------------------------------------------
(* render_summary_section *)

\* The rows of all_res: one per result of every case, in order.
RECURSIVE AllRes(_, _)
AllRes(cs, n) ==
    IF n = 0 THEN <<>> ELSE AllRes(cs, n - 1) \o cs[n].results

RECURSIVE SumScores(_)
SumScores(occ) ==
    IF Len(occ) = 0 THEN 0 ELSE occ[1].score.v + SumScores(Tail(occ))

HasScore(r) == ~r.score.nan
IsFatal(r) == r.is_fatal

\* Mutant of MeanScore: the fatal results are left out of the mean.
MeanScore_nonFatal(occ) ==
    LET NotFatalScored(r) == HasScore(r) /\ ~r.is_fatal
        num == SelectSeq(occ, NotFatalScored)
    IN  IF Len(num) = 0 THEN [nan |-> TRUE, num |-> 0, den |-> 1]
        ELSE [nan |-> FALSE, num |-> SumScores(num), den |-> Len(num)]

\* Series.mean() of the Score column: the mean of the values that are not
\* nan, as the fraction num/den of tenths; nan when there is none.
MeanScore(occ) ==
    LET num == SelectSeq(occ, HasScore)
    IN  IF Len(num) = 0 THEN [nan |-> TRUE, num |-> 0, den |-> 1]
        ELSE [nan |-> FALSE, num |-> SumScores(num), den |-> Len(num)]

\* Series.sum() of the Fatal column.
FatalCount(occ) == Len(SelectSeq(occ, IsFatal))

\* res_df[res_df['System'] == sys]: nan equals nothing.
SystemData(all_res, sys) ==
    LET Match(r) == sys.t # "nan" /\ r.system_name = sys
    IN  SelectSeq(all_res, Match)

\* render_summary_section(cases): the metric cards it puts on the page,
\* one per value of the System column, in order of first occurrence.
render_summary_section(cs) ==
    IF Len(cs) = 0 THEN <<>>
    ELSE LET all_res == AllRes(cs, Len(cs))
             systems == unique([i \in 1..Len(all_res) |-> all_res[i].system_name])
         IN  [i \in 1..Len(systems) |->
                 [system |-> systems[i],
                  avg_score |-> MeanScore(SystemData(all_res, systems[i])),
                  fatal_count |-> FatalCount(SystemData(all_res, systems[i]))]]

-----------------------------------------------------------------------------
(* Specification SpecSummary: one call of render_summary_section on the
   cases of a table *)

\* The greatest number of rows of a table whose cases are summarised.
MaxSummaryRows == 3

\* 40.0 and fatal.
LowFatalPayload == Payload(Num(400), Str(<<"Y", "E", "S">>), "f")
\* No score, not fatal.
NoScorePayload == Payload(NaN, Str(<<"N", "O">>), "n")

SummaryRows ==
    {MkRow(id, sys, p) : id \in {Num(10), Num(20)}, sys \in SystemCells,
                         p \in {PlainPayload, LowFatalPayload, NoScorePayload}}

InitSummary ==
    /\ pc = "start"
    /\ \E rows \in SeqsUpTo(SummaryRows, MaxSummaryRows) :
           cases = load_and_process_data(File(CsvName, "csv", AllColumns, rows)).value
    /\ summary = <<>>
    /\ IdleLoad /\ IdleBadge /\ IdleApp

RenderSummary ==
    /\ pc = "start"
    /\ summary' = render_summary_section(cases)
    /\ pc' = "rendered"
    /\ UNCHANGED <<df, loaded, score, is_fatal, badge, cases,
                   disk, newest, uploaded_file, cache, screen>>

NextSummary == RenderSummary

SpecSummary == InitSummary /\ [][NextSummary]_vars

-----------------------------------------------------------------------------
(* main, and st.cache_data around load_and_process_data *)

\* The paths that match Evaluation_Report*.xlsx.
Paths == {<<"Evaluation_Report", ".xlsx">>, <<"Evaluation_Report_2", ".xlsx">>}

NoPath == <<>>

\* get_latest_local_report(): the matching file of greatest modification
\* time, None when there is none.
get_latest_local_report == IF \A p \in Paths : disk[p] = NoFile THEN NoPath ELSE newest

NoSource == [kind |-> "none", name |-> <<>>, content |-> NoFile]

\* The data source main picks: the uploaded file first, else the latest
\* local report, else none.
DataSource ==
    IF uploaded_file # NoFile
    THEN [kind |-> "upload", name |-> uploaded_file.name, content |-> uploaded_file]
    ELSE IF get_latest_local_report # NoPath
    THEN [kind |-> "path", name |-> get_latest_local_report, content |-> NoFile]
    ELSE NoSource

\* The key st.cache_data derives from the argument: a str by its value (the
\* path, not the file behind it), an UploadedFile by its name and bytes.
CacheKey(source) == source

\* The file the call reads when it does run.
FileOf(source) == IF source.kind = "path" THEN disk[source.name] ELSE source.content

Cached(key) == {e \in cache : e.key = key}

\* The call load_and_process_data(data_source) through st.cache_data: a
\* stored outcome is replayed (its st.error with it); otherwise the
\* function runs, and what it returns is stored; an exception stores nothing.
CachedLoad(source) ==
    IF Cached(CacheKey(source)) # {}
    THEN [outcome |-> (CHOOSE e \in Cached(CacheKey(source)) : TRUE).outcome,
          store |-> cache, hit |-> TRUE]
    ELSE LET out == load_and_process_data(FileOf(source))
         IN  [outcome |-> out,
              store |-> IF out.kind = "return"
                        THEN cache \cup {[key |-> CacheKey(source), outcome |-> out]}
                        ELSE cache,
              hit |-> FALSE]

HasFatal(c) == \E j \in 1..Len(c.results) : c.results[j].is_fatal

RECURSIVE Badges(_, _)
\* The badges of the columns of one card, or the exception get_badge_html
\* raises.
Badges(results, n) ==
    IF n = 0 THEN Ok(<<>>)
    ELSE LET before == Badges(results, n - 1)
             b == get_badge_html(results[n].score, results[n].is_fatal)
         IN  IF ~before.ok THEN before
             ELSE IF b.kind = "raise" THEN Raise(b.label)
             ELSE Ok(Append(before.val, b.label))

\* render_battle_card(case)
render_battle_card(c) ==
    LET b == Badges(c.results, Len(c.results))
    IN  IF b.ok THEN Ok([case_id |-> c.case_id, badges |-> b.val]) ELSE b

RECURSIVE RenderCards(_, _)
\* The loop over display_cases; the first exception ends the script run.
RenderCards(cs, n) ==
    IF n = 0 THEN Ok(<<>>)
    ELSE LET before == RenderCards(cs, n - 1)
             c == render_battle_card(cs[n])
         IN  IF ~before.ok THEN before
             ELSE IF ~c.ok THEN [ok |-> FALSE, exc |-> c.exc, val |-> before.val]
             ELSE Ok(Append(before.val, c.val))

LoadFailedMessage == <<"data loading failed, check the report format">>

Page(view, source, input, hit, errors, summ, cards, exc) ==
    [view |-> view, source |-> source, input |-> input, hit |-> hit,
     errors |-> errors, summary |-> summ, cards |-> cards, exc |-> exc]

NoPage == Page("none", NoSource, NoFile, FALSE, <<>>, <<>>, <<>>, "")

\* Mutant of PageOf: an empty case list is rendered like any other.
PageOf_noEmptyCheck(source, call, show_fatal) ==
    LET out == call.outcome
        input == FileOf(source)
    IN  IF source = NoSource
        THEN Page("empty state", source, NoFile, FALSE, <<>>, <<>>, <<>>, "")
        ELSE IF out.kind = "raise"
        THEN Page("exception", source, input, call.hit, <<>>, <<>>, <<>>, out.exc)
        ELSE Page("cases", source, input, call.hit, out.errors,
                  render_summary_section(out.value), <<>>, "")

\* The page one run of main leaves, given the data source, the outcome of
\* the cached call and the fatal-only checkbox.
PageOf(source, call, show_fatal) ==
    LET out == call.outcome
        input == FileOf(source)
    IN  IF source = NoSource
        THEN Page("empty state", source, NoFile, FALSE, <<>>, <<>>, <<>>, "")
        ELSE IF out.kind = "raise"
        THEN Page("exception", source, input, call.hit, <<>>, <<>>, <<>>, out.exc)
        ELSE IF Len(out.value) = 0
        THEN Page("load failed", source, input, call.hit,
                  Append(out.errors, LoadFailedMessage), <<>>, <<>>, "")
        ELSE LET display_cases == IF show_fatal THEN SelectSeq(out.value, HasFatal)
                                  ELSE out.value
                 cards == RenderCards(display_cases, Len(display_cases))
             IN  Page(IF cards.ok THEN "cases" ELSE "exception", source, input,
                      call.hit, out.errors, render_summary_section(out.value),
                      cards.val, cards.exc)

\* One run of the script.
Main ==
    /\ \E source \in {DataSource} :
       \E call \in {IF source = NoSource
                    THEN [outcome |-> NoOutcome, store |-> cache, hit |-> FALSE]
                    ELSE CachedLoad(source)} :
           /\ \E show_fatal \in BOOLEAN :
                screen' = PageOf(source, call, show_fatal)
           /\ cache' = call.store
    /\ UNCHANGED <<disk, newest, uploaded_file,
                   pc, df, loaded, score, is_fatal, badge, cases, summary>>

-----------------------------------------------------------------------------
(* Specification SpecApp: the directory, the upload widget and the script
   runs of one server process *)

OneRow(p) == <<MkRow(Num(10), SysA, p)>>

\* What a report file may hold: a table, another table, or bytes that are
\* no spreadsheet.
ReportContents ==
    {[format |-> "xlsx", cols |-> AllColumns, rows |-> OneRow(PlainPayload)],
     [format |-> "xlsx", cols |-> AllColumns, rows |-> OneRow(LowFatalPayload)],
     [format |-> "junk", cols |-> {}, rows |-> <<>>]}

Uploads ==
    {File(CsvName, "csv", AllColumns, OneRow(PlainPayload)),
     File(CsvName, "xlsx", AllColumns, OneRow(PlainPayload))}

IdleCalls == pc = "app" /\ IdleLoad /\ IdleBadge /\ IdleSummary

InitApp ==
    /\ IdleCalls
    /\ disk = [p \in Paths |-> NoFile]
    /\ newest = NoPath
    /\ uploaded_file = NoFile
    /\ cache = {}
    /\ screen = NoPage

\* Something outside the program writes a report file.
WriteReport ==
    /\ \E p \in Paths, c \in ReportContents :
         /\ disk' = [disk EXCEPT ![p] = File(p, c.format, c.cols, c.rows)]
         /\ newest' = p
    /\ UNCHANGED <<uploaded_file, cache, screen,
                   pc, df, loaded, score, is_fatal, badge, cases, summary>>

\* The user picks a file in the uploader, or clears it.
Upload ==
    /\ uploaded_file' \in Uploads \cup {NoFile}
    /\ uploaded_file' # uploaded_file
    /\ UNCHANGED <<disk, newest, cache, screen,
                   pc, df, loaded, score, is_fatal, badge, cases, summary>>

NextApp == WriteReport \/ Upload \/ Main

SpecApp == InitApp /\ [][NextApp]_vars

-----------------------------------------------------------------------------
(* Specification SpecMain: the first script run of a process, on one input *)

\* The columns whose absence the load is tried with.
DroppedColumns == {{}, {"CASE_ID"}, {"SYSTEM"}, {"TOTAL_SCORE"}, {"S4_FATAL"},
                   {"S4_REASON", "SOURCE_FILE"}}

MainRows ==
    {MkRow(id, SysA, p) : id \in {Num(10), Num(20)},
                          p \in {PlainPayload, LowFatalPayload, NoScorePayload}}

\* The greatest number of rows of the table of the first run.
MaxMainRows == 2

MainInputs ==
    {[format |-> fmt, cols |-> AllColumns \ drop, rows |-> rows] :
        fmt \in {"xlsx", "csv", "junk"}, drop \in DroppedColumns,
        rows \in SeqsUpTo(MainRows, MaxMainRows)}

InitMain ==
    /\ IdleCalls
    /\ cache = {}
    /\ screen = NoPage
    /\ \E c \in MainInputs :
         \/ /\ uploaded_file = NoFile
            /\ \E p \in Paths :
                 /\ disk = [q \in Paths |->
                              IF q = p THEN File(p, c.format, c.cols, c.rows) ELSE NoFile]
                 /\ newest = p
         \/ /\ uploaded_file \in {File(CsvName, c.format, c.cols, c.rows),
                                  File(<<"report", ".xlsx">>, c.format, c.cols, c.rows)}
            /\ disk = [q \in Paths |-> NoFile]
            /\ newest = NoPath

NextMain == Main

SpecMain == InitMain /\ [][NextMain]_vars

-----------------------------------------------------------------------------
(* What the claims speak of, stated on the table itself *)

Rows == df.rows

Range(f) == {f[i] : i \in DOMAIN f}

\* A missing cell holds no value: the values of a column are its other cells.
IsValue(cell) == cell # NaN

SystemNames == {r.SYSTEM : r \in {x \in Range(Rows) : IsValue(x.SYSTEM)}}
CaseIdValues == {r.CASE_ID : r \in {x \in Range(Rows) : IsValue(x.CASE_ID)}}

\* The index of the first row of the table that satisfies P.
FirstRowIndex(P(_)) ==
    CHOOSE i \in 1..Len(Rows) : P(Rows[i]) /\ \A j \in 1..(i - 1) : ~P(Rows[j])

FirstOfSystem(name) == LET P(r) == r.SYSTEM = name IN FirstRowIndex(P)

HasRow(id, name) == \E i \in 1..Len(Rows) : Rows[i].CASE_ID = id /\ Rows[i].SYSTEM = name

\* The first row, in table order, of a case and of a (case, system) pair.
FirstOfCase(id) == LET P(r) == r.CASE_ID = id IN Rows[FirstRowIndex(P)]
FirstOfPair(id, name) ==
    LET P(r) == r.CASE_ID = id /\ r.SYSTEM = name IN Rows[FirstRowIndex(P)]

Returns == pc = "loaded" /\ loaded.kind = "return"
Output == loaded.value

NamesOf(case) == [j \in 1..Len(case.results) |-> case.results[j].system_name]

\* The ways of pairing the table's case ids with the returned cases, one
\* case each, a case's case_id being the integer of its id.
Pairings ==
    {f \in [CaseIdValues -> 1..Len(Output)] :
        /\ \A a, b \in CaseIdValues : a # b => f[a] # f[b]
        /\ \A a \in CaseIdValues : Output[f[a]].case_id = IntOf(a).v}

SlotOf(case, name) ==
    CHOOSE j \in 1..Len(case.results) : case.results[j].system_name = name

\* The spellings of "YES" in either letter case.
YesSpellings ==
    {<<a, b, c>> : a \in {"Y", "y"}, b \in {"E", "e"}, c \in {"S", "s"}}

\* The text of a cell after the table-wide default substitution.
TextOf(row, col) == IF row[col] = NaN THEN FillDefault(col).s ELSE row[col].s

BadScore == Str(<<"a", "b", "c">>)

-----------------------------------------------------------------------------
(* Claims on load_and_process_data (specification Spec) *)

\* C1, as stated: every returned case has as many results as the table has
\* distinct SYSTEM values, holding each system name exactly once, in the
\* order of first appearance in the whole table.
C1_AsStated ==
    Returns =>
        \A i \in 1..Len(Output) :
            LET names == NamesOf(Output[i])
            IN  /\ Len(names) = Cardinality(SystemNames)
                /\ Range(names) = SystemNames
                /\ \A a, b \in 1..Len(names) :
                       a < b => FirstOfSystem(names[a]) < FirstOfSystem(names[b])

\* C1, amended: the same with the missing SYSTEM cell, when the table has
\* one, counted as one more value with a slot of its own: the slots of
\* every case are the distinct SYSTEM cells of the table, each once, in the
\* order of first appearance, and so the same sequence for every case.
C1_UniformSlots ==
    Returns =>
        \A i \in 1..Len(Output) :
            LET names == NamesOf(Output[i])
                cells == {r.SYSTEM : r \in Range(Rows)}
            IN  /\ Len(names) = Cardinality(cells)
                /\ Range(names) = cells
                /\ \A a, b \in 1..Len(names) :
                       a < b => FirstOfSystem(names[a]) < FirstOfSystem(names[b])
                /\ names = NamesOf(Output[1])

\* C1 witness: two cases returned, two system names and a missing SYSTEM
\* cell in the table, and a case with no row of one of the names.
C1_Witness ==
    /\ Returns /\ Len(Output) >= 2
    /\ Cardinality(SystemNames) = 2
    /\ \E r \in Range(Rows) : r.SYSTEM = NaN
    /\ \E id \in CaseIdValues, name \in SystemNames : ~HasRow(id, name)

\* C2: one returned case per distinct CASE_ID value of the table, in
\* ascending order of case_id.
C2_OnePerCaseIdSorted ==
    Returns =>
        /\ Len(Output) = Cardinality(CaseIdValues)
        /\ Pairings # {}
        /\ \A i, j \in 1..Len(Output) :
               i < j => Output[i].case_id <= Output[j].case_id

\* C2 witness: case ids that are texts, which group in the order "10", "9",
\* beside two numeric ids with the same integer part.
C2_Witness ==
    /\ Returns
    /\ {Str(<<"9">>), Str(<<"1", "0">>), Num(10)} \subseteq CaseIdValues
    /\ Len(Output) = 3

\* C4: in every case, the slot of a system name that has no row in the
\* case's group holds the placeholder: score 0.0, not fatal, the fixed
\* texts; the load returns, and the case has a slot for every name.
C4_PlaceholderForMissing ==
    (pc = "loaded" /\ \A r \in Range(Rows) : r.TOTAL_SCORE # BadScore) =>
        /\ loaded.kind = "return"
        /\ \E f \in Pairings :
             \A id \in CaseIdValues : \A name \in SystemNames :
                /\ \E j \in 1..Len(Output[f[id]].results) :
                       Output[f[id]].results[j].system_name = name
                /\ ~HasRow(id, name) =>
                     Output[f[id]].results[SlotOf(Output[f[id]], name)] =
                         [system_name |-> name, score |-> [nan |-> FALSE, v |-> 0],
                          is_fatal |-> FALSE,
                          raw_response |-> <<"[system data missing]">>,
                          audit_reasoning |-> <<"N", "/", "A">>,
                          fatal_reason |-> <<>>]

\* C4 witness: a returned case lacks a row of a system that another case has.
C4_Witness ==
    /\ Returns /\ Len(Output) >= 2
    /\ \E id \in CaseIdValues, name \in SystemNames : ~HasRow(id, name)

\* A row a SystemResult is built from: the first row of its case and system.
IsUsedRow(r) ==
    /\ IsValue(r.CASE_ID) /\ IsValue(r.SYSTEM)
    /\ r = FirstOfPair(r.CASE_ID, r.SYSTEM)

C10_FirstRowWins ==
    Returns =>
        \E f \in Pairings :
            \A id \in CaseIdValues :
                LET case == Output[f[id]]
                    head == FirstOfCase(id)
                IN  /\ case.question_text = TextOf(head, "QUESTION")
                    /\ case.citation_rule = TextOf(head, "CITATION_RULE")
                    /\ case.ground_truth = TextOf(head, "GROUND_TRUTH")
                    /\ case.source_file = TextOf(head, "SOURCE_FILE")
                    /\ Len(case.results) = Cardinality({r.SYSTEM : r \in Range(Rows)})
                    /\ \A name \in SystemNames :
                         HasRow(id, name) =>
                           LET row == FirstOfPair(id, name)
                               res == case.results[SlotOf(case, name)]
                               sc == ParseFloat(row.TOTAL_SCORE.s)
                           IN  /\ res.score =
                                    (IF row.TOTAL_SCORE.t = "num"
                                     THEN [nan |-> FALSE, v |-> row.TOTAL_SCORE.v]
                                     ELSE [nan |-> sc.nan, v |-> sc.v])
                               /\ res.is_fatal =
                                    (row.S4_FATAL.t = "str" /\ row.S4_FATAL.s \in YesSpellings)
                               /\ res.raw_response = TextOf(row, "MODEL_OUTPUT")
                               /\ res.audit_reasoning = TextOf(row, "AUDIT_REASONING")
                               /\ res.fatal_reason = TextOf(row, "S4_REASON")

\* C10 witness: a returned case whose group holds two rows of one system
\* that differ in every field.
C10_Witness ==
    /\ Returns
    /\ \E a, b \in 1..Len(Rows) :
          /\ a < b
          /\ Rows[a].CASE_ID = Rows[b].CASE_ID /\ IsValue(Rows[a].CASE_ID)
          /\ Rows[a].SYSTEM = Rows[b].SYSTEM /\ IsValue(Rows[a].SYSTEM)
          /\ Rows[a].TOTAL_SCORE # Rows[b].TOTAL_SCORE
          /\ Rows[a].S4_FATAL # Rows[b].S4_FATAL
          /\ Rows[a].QUESTION # Rows[b].QUESTION

-----------------------------------------------------------------------------
(* Claims on get_badge_html (specification SpecBadge) *)

\* The badge the claim's order of precedence names for a pair.
ClaimedBadge(sc, fatal) ==
    IF fatal THEN "FATAL"
    ELSE IF ~sc.nan /\ sc.v >= 1000 THEN "PERFECT"
    ELSE IF ~sc.nan /\ sc.v >= 900 THEN "EXCELLENT"
    ELSE IF ~sc.nan /\ sc.v < 600 THEN "FAIL"
    ELSE "QUALIFIED"

\* C3, as stated: every (score, is_fatal) pair yields one of the five
\* badges, the first that matches in the order fatal, >= 100, >= 90, < 60,
\* otherwise qualified.
C3_EveryPairGetsItsBadge ==
    pc = "badged" =>
        /\ badge.kind = "badge"
        /\ badge.label = ClaimedBadge(score, is_fatal)

\* The same for the pairs whose score is a number or whose flag is set:
\* the part of C3 the code does satisfy.
C3_NumbersAndFatal ==
    (pc = "badged" /\ (is_fatal \/ ~score.nan)) =>
        /\ badge.kind = "badge"
        /\ badge.label = ClaimedBadge(score, is_fatal)

-----------------------------------------------------------------------------
(* Claims on render_summary_section (specification SpecSummary) *)

Occurrences ==
    UNION {{<<i, j>> : j \in 1..Len(cases[i].results)} : i \in 1..Len(cases)}

NamesInResults ==
    {cases[o[1]].results[o[2]].system_name : o \in Occurrences} \ {NaN}

OccOf(name) ==
    {o \in Occurrences : cases[o[1]].results[o[2]].system_name = name}

ScoreAt(o) == cases[o[1]].results[o[2]].score
FatalAt(o) == cases[o[1]].results[o[2]].is_fatal

RECURSIVE SumOver(_)
\* The sum of the scores (nan taken as 0) of a set of occurrences.
SumOver(occ) ==
    IF occ = {} THEN 0
    ELSE LET o == CHOOSE x \in occ : TRUE
         IN  ScoreAt(o).v + SumOver(occ \ {o})

Cards(name) == {i \in 1..Len(summary) : summary[i].system = name}

-----------------------------------------------------------------------------
(* Claims on main (specification SpecMain) *)

RequiredColumns == {"CASE_ID", "SYSTEM", "TOTAL_SCORE", "S4_FATAL"}

\* The run has loaded a file that was read into a table.
RanOnTable == screen.source # NoSource /\ ~ReadFails(screen.input)

\* The run has loaded a file the parser could not read.
RanOnUnreadable == screen.source # NoSource /\ ReadFails(screen.input)

\* The page of a failed load: the load-failure message, no summary, no card,
\* and no exception ending the run.
ShowsLoadFailed ==
    /\ screen.view = "load failed"
    /\ screen.errors # <<>>
    /\ screen.errors[Len(screen.errors)] = LoadFailedMessage
    /\ screen.summary = <<>>
    /\ screen.cards = <<>>
    /\ screen.exc = ""

\* C7, as stated: when the table that was read lacks one of CASE_ID, SYSTEM,
\* TOTAL_SCORE, S4_FATAL, main receives the empty list and the page shows
\* the load-failure message, as it does for an unreadable file.
C7_MissingColumnShowsLoadFailed ==
    (RanOnTable /\ RequiredColumns \ screen.input.cols # {}) => ShowsLoadFailed

\* C7 witness of the divergence: a table with rows and a required column
\* missing ends the run with a KeyError and no message.
C7_KeyErrorReached ==
    /\ RanOnTable
    /\ RequiredColumns \ screen.input.cols # {}
    /\ Len(screen.input.rows) > 0
    /\ screen.view = "exception"
    /\ screen.exc = "KeyError"
    /\ screen.errors = <<>>

\* C8: when the parser raises on the input file, load_and_process_data
\* emits the error message that carries the exception's text and returns the
\* empty list (no case is built, whatever the file would have held), and
\* main shows the load-failure message after it, with no summary and no card.
C8_ReadErrorShowsLoadFailed ==
    RanOnUnreadable =>
        /\ ShowsLoadFailed
        /\ screen.errors = <<ReadErrorMessage(screen.input), LoadFailedMessage>>
        /\ \E e \in cache :
             /\ e.key = CacheKey(screen.source)
             /\ e.outcome = Returned(<<>>, <<ReadErrorMessage(screen.input)>>)

\* C8 witness: a run on an unreadable file whose table, had it been read,
\* has rows but lacks a required column.
C8_Witness ==
    /\ RanOnUnreadable
    /\ screen.view = "load failed"
    /\ Len(screen.input.rows) > 0
    /\ RequiredColumns \ screen.input.cols # {}

-----------------------------------------------------------------------------
(* Claims on the cache (specification SpecApp) *)

\* What a run on the current content of its input shows when nothing is
\* reused.
FreshOutcome == load_and_process_data(screen.input)

ShowsOutcome(out) ==
    /\ (screen.view = "load failed") = (Len(out.value) = 0)
    /\ screen.summary = (IF Len(out.value) = 0 THEN <<>>
                         ELSE render_summary_section(out.value))
    /\ \E n \in 0..1 : SubSeq(screen.errors, 1, Len(screen.errors) - n) = out.errors

\* C9, as stated: whatever calls came before, a run shows the cases built
\* from the current content of its input, the file at an already-loaded
\* path having been rewritten included.
C9_NeverStale ==
    (screen.source # NoSource /\ FreshOutcome.kind = "return") =>
        ShowsOutcome(FreshOutcome)

\* C9 witness of the divergence: a run on a path whose file has been
\* rewritten replays the outcome of the earlier content.
C9_StaleReached ==
    /\ screen.source.kind = "path"
    /\ screen.hit
    /\ FreshOutcome.kind = "return"
    /\ ~ShowsOutcome(FreshOutcome)

\* The cache does key an upload by its content: a run on an upload never
\* shows another content's cases.
C9_UploadNeverStale ==
    (screen.source.kind = "upload" /\ FreshOutcome.kind = "return") =>
        ShowsOutcome(FreshOutcome)

====
